---- MODULE Spec2Model ----
(***************************************************************************)
(* csv2xml: conversion of a semicolon-separated CSV file into an XML       *)
(* document whose nesting is given by dot-delimited column headers.        *)
(*                                                                         *)
(* Strings are sequences of one-character strings, so that split, strip    *)
(* and str are computed character by character.  The element tree is a     *)
(* heap: a sequence of Element records, an element being identified by its *)
(* index, so that the references held by main (root, row_elem) and the     *)
(* in-place updates of ElementTree are explicit.                           *)
(***************************************************************************)
EXTENDS Naturals, Sequences, FiniteSets

VARIABLES
    headers,      \* list(df.columns)
    explicit,     \* args.row_tag
    keep_empty,   \* args.keep_empty
    row_tag,      \* the tag determine_row_tag returned
    df,           \* the rows df.iterrows() has yielded so far, in order
    row,          \* the row being processed
    col,          \* index in headers of the next column of the row
    nodes,        \* the heap of Elements; nodes[1] is root once created
    row_elem,     \* the Element of the row being processed
    path,         \* the last result of path_for_row
    written,      \* the trees tree.write has serialised
    last,         \* what the last step did
    pc            \* where main is

vars == <<headers, explicit, keep_empty, row_tag, df, row, col, nodes,
          row_elem, path, written, last, pc>>

-----------------------------------------------------------------------------
(* Bounds of the model *)

MaxCols == 2
MaxRows == 2
MaxCells == 4
FnMaxLen == 3
FnMaxCols == 2

-----------------------------------------------------------------------------
(* Python values *)

None == [kind |-> "None"]
NaN == [kind |-> "float", nan |-> TRUE]
Str(s) == [kind |-> "str", s |-> s]

Dot == "."
Whitespace == {" ", "\n", "\t", "\r"}

EmptyStr == << >>
RecordTag == <<"r", "e", "c", "o", "r", "d">>
RootTag == <<"r", "o", "o", "t">>
NanText == <<"n", "a", "n">>

\* truth value of an Optional[str]
Truthy(v) == v.kind = "str" /\ v.s # EmptyStr

Contains(s, c) == \E i \in 1..Len(s) : s[i] = c

Min(S) == CHOOSE x \in S : \A y \in S : x <= y
Max(S) == CHOOSE x \in S : \A y \in S : y <= x

\* s.split(".")
RECURSIVE Split(_)
Split(s) ==
    IF ~Contains(s, Dot) THEN <<s>>
    ELSE LET i == Min({j \in 1..Len(s) : s[j] = Dot})
         IN  <<SubSeq(s, 1, i - 1)>> \o Split(SubSeq(s, i + 1, Len(s)))

\* s.strip()
Strip(s) ==
    LET keep == {j \in 1..Len(s) : s[j] \notin Whitespace}
    IN  IF keep = {} THEN EmptyStr ELSE SubSeq(s, Min(keep), Max(keep))

\* str(val)
StrOf(val) ==
    IF val.kind = "str" THEN val.s
    ELSE IF val.kind = "float" THEN NanText
    ELSE <<"N", "o", "n", "e">>

-----------------------------------------------------------------------------
(* Elements *)

\* ET.Element(tag)
Element(tag) == [tag |-> tag, text |-> None, tail |-> None, kids |-> << >>]

\* get_or_create without its search: a new child every time
get_or_create_always_new(h, parent, tag) ==
    [nodes |-> [Append(h, Element(tag))
                   EXCEPT ![parent].kids = Append(h[parent].kids, Len(h) + 1)],
     node  |-> Len(h) + 1]

\* get_or_create putting a new child first (parent.insert(0, new_child))
get_or_create_prepend(h, parent, tag) ==
    LET kids == h[parent].kids
        hit  == {j \in 1..Len(kids) : h[kids[j]].tag = tag}
        new  == Len(h) + 1
    IN  IF hit # {}
        THEN [nodes |-> h, node |-> kids[CHOOSE j \in hit : \A k \in hit : j <= k]]
        ELSE [nodes |-> [Append(h, Element(tag))
                            EXCEPT ![parent].kids = <<new>> \o kids],
              node  |-> new]

\* get_or_create(parent, tag): the first child of parent tagged tag, or a new
\* child appended to parent. The heap after the call and the element returned.
get_or_create(h, parent, tag) ==
    LET kids == h[parent].kids
        hit  == {j \in 1..Len(kids) : h[kids[j]].tag = tag}
        new  == Len(h) + 1
    IN  IF hit # {}
        THEN [nodes |-> h, node |-> kids[Min(hit)]]
        ELSE [nodes |-> [Append(h, Element(tag))
                            EXCEPT ![parent].kids = Append(kids, new)],
              node  |-> new]

\* the loop of set_nested_value from segment i on, node being the current node
RECURSIVE set_nested_from(_, _, _, _, _)
set_nested_from(h, node, path_segments, i, value) ==
    IF i > Len(path_segments) THEN h
    ELSE LET r  == get_or_create(h, node, path_segments[i])
             h2 == IF i = Len(path_segments)
                   THEN [r.nodes EXCEPT ![r.node].text = Str(value)]
                   ELSE r.nodes
         IN  set_nested_from(h2, r.node, path_segments, i + 1, value)

\* set_nested_value keeping a text already there (first value wins)
RECURSIVE set_nested_keep_from(_, _, _, _, _)
set_nested_keep_from(h, node, path_segments, i, value) ==
    IF i > Len(path_segments) THEN h
    ELSE LET r  == get_or_create(h, node, path_segments[i])
             h2 == IF i = Len(path_segments) /\ r.nodes[r.node].text = None
                   THEN [r.nodes EXCEPT ![r.node].text = Str(value)]
                   ELSE r.nodes
         IN  set_nested_keep_from(h2, r.node, path_segments, i + 1, value)

set_nested_value_first_wins(h, parent, path_segments, value) ==
    set_nested_keep_from(h, parent, path_segments, 1, value)

\* set_nested_value(parent, path_segments, value)
set_nested_value(h, parent, path_segments, value) ==
    set_nested_from(h, parent, path_segments, 1, value)

\* SubElement putting the new element first
SubElement_front(h, parent, tag) ==
    [nodes |-> [Append(h, Element(tag))
                   EXCEPT ![parent].kids = <<Len(h) + 1>> \o h[parent].kids],
     node  |-> Len(h) + 1]

\* the child of parent with that tag when there is one (get_or_create in
\* place of SubElement)
SubElement_reuse(h, parent, tag) == get_or_create(h, parent, tag)

\* ET.SubElement(parent, tag): the heap after the call and the new element
SubElement(h, parent, tag) ==
    [nodes |-> [Append(h, Element(tag))
                   EXCEPT ![parent].kids = Append(h[parent].kids, Len(h) + 1)],
     node  |-> Len(h) + 1]

\* not elem.text or not elem.text.strip()   (also used for tail)
Blank(t) == t = None \/ t.s = EmptyStr \/ Strip(t.s) = EmptyStr

\* "\n" + level * "  "
RECURSIVE IndentText(_)
IndentText(level) ==
    IF level = 0 THEN <<"\n">> ELSE IndentText(level - 1) \o <<" ", " ">>

\* indent(elem, level), on the heap
RECURSIVE indent(_, _, _)
RECURSIVE indent_children(_, _, _, _)
indent_children(h, kids, j, level) ==
    IF j > Len(kids) THEN h
    ELSE indent_children(indent(h, kids[j], level), kids, j + 1, level)

indent(h, elem, level) ==
    LET i    == IndentText(level)
        kids == h[elem].kids
        h1   == IF Len(kids) > 0 /\ Blank(h[elem].text)
                THEN [h EXCEPT ![elem].text = Str(i \o <<" ", " ">>)]
                ELSE h
        h2   == IF Len(kids) > 0
                THEN indent_children(h1, kids, 1, level + 1)
                ELSE h1
        child == kids[Len(kids)]
        h3   == IF Len(kids) > 0 /\ Blank(h2[child].tail)
                THEN [h2 EXCEPT ![child].tail = Str(i)]
                ELSE h2
    IN  IF level > 0 /\ Blank(h3[elem].tail)
        THEN [h3 EXCEPT ![elem].tail = Str(i)]
        ELSE h3

\* determine_row_tag without its filter: the headers with no "." count too
determine_row_tag_unfiltered(hs, explicit_row_tag) ==
    IF Truthy(explicit_row_tag) THEN explicit_row_tag.s
    ELSE LET first_segments == {Split(hs[i])[1] : i \in 1..Len(hs)}
         IN  IF Cardinality(first_segments) = 1
             THEN CHOOSE x \in first_segments : TRUE
             ELSE RecordTag

\* determine_row_tag(headers, explicit_row_tag)
determine_row_tag(hs, explicit_row_tag) ==
    IF Truthy(explicit_row_tag) THEN explicit_row_tag.s
    ELSE LET first_segments ==
                 {Split(hs[i])[1] : i \in {j \in 1..Len(hs) : Contains(hs[j], Dot)}}
         IN  IF Cardinality(first_segments) = 1
             THEN CHOOSE x \in first_segments : TRUE
             ELSE RecordTag

\* path_for_row without its length test: a lone segment is dropped too
path_for_row_no_length_test(col_name, tag) ==
    LET parts == Split(col_name)
    IN  IF parts[1] = tag
        THEN SubSeq(parts, 2, Len(parts))
        ELSE parts

\* main.path_for_row(col_name), row_tag being main's variable
path_for_row(col_name, tag) ==
    LET parts == Split(col_name)
    IN  IF Len(parts) > 1 /\ parts[1] = tag
        THEN SubSeq(parts, 2, Len(parts))
        ELSE parts

\* the tests of main without the strip: str(val) == ""
SkipsValue_no_strip(val) ==
    \/ val = None
    \/ val.kind = "float" /\ val.nan
    \/ StrOf(val) = EmptyStr

\* the three tests of main that skip a value when keep_empty is off
SkipsValue(val) ==
    \/ val = None
    \/ val.kind = "float" /\ val.nan
    \/ Strip(StrOf(val)) = EmptyStr

\* text = "" if val is None else str(val)
TextOf(val) == IF val = None THEN EmptyStr ELSE StrOf(val)

\* one iteration of "for col in headers": the heap after it
ColumnStep(h, relem, hs, tag, keep, r, c) ==
    IF ~keep /\ SkipsValue(r[c]) THEN h
    ELSE set_nested_value(h, relem, path_for_row(hs[c], tag), TextOf(r[c]))

-----------------------------------------------------------------------------
(* The inputs *)

\* the column names of the conversions: one to three segments
Headers ==
    { <<"p">>, <<"n">>,
      <<"p", ".", "n">>, <<"n", ".", "p">>, <<"p", ".", "p">>,
      <<"p", ".", "n", ".", "p">> }

\* pandas keeps column names distinct (it renames a repeated name)
Distinct(hs) == \A i, j \in 1..Len(hs) : hs[i] = hs[j] => i = j

ListsOver(S, n) == UNION {[1..k -> S] : k \in 1..n}

HeaderLists == {hs \in ListsOver(Headers, MaxCols) : Distinct(hs)}

\* --row-tag: absent, or given
ExplicitTags == {None, Str(<<"n">>)}

\* a cell: text (empty, blank or not), or None, what read_csv (dtype=str,
\* keep_default_na=False, engine="python") leaves in a row that is too short
Values == {None, Str(EmptyStr), Str(<<" ">>), Str(<<"v">>), Str(<<"w">>)}

-----------------------------------------------------------------------------
(* main *)

Root == 1

Init ==
    /\ headers \in HeaderLists
    /\ explicit \in ExplicitTags
    /\ keep_empty \in BOOLEAN
    /\ row_tag = EmptyStr
    /\ df = << >>
    /\ row = << >>
    /\ col = 0
    /\ nodes = << >>
    /\ row_elem = 0
    /\ path = << >>
    /\ written = << >>
    /\ last = "init"
    /\ pc = "start"

\* row_tag = determine_row_tag(...); root = ET.Element(args.root_tag)
Start ==
    /\ pc = "start"
    /\ row_tag' = determine_row_tag(headers, explicit)
    /\ nodes' = <<Element(RootTag)>>
    /\ last' = "start"
    /\ pc' = "rows"
    /\ UNCHANGED <<headers, explicit, keep_empty, df, row, col, row_elem,
                   path, written>>

\* df.iterrows() yields a row: row_elem = ET.SubElement(root, row_tag)
NextRow ==
    /\ pc = "rows"
    /\ Len(df) < MaxRows
    /\ (Len(df) + 1) * Len(headers) <= MaxCells
    /\ \E r \in [1..Len(headers) -> Values] :
          /\ row' = r
          /\ df' = Append(df, r)
    /\ LET r == SubElement(nodes, Root, row_tag)
       IN  /\ nodes' = r.nodes
           /\ row_elem' = r.node
    /\ col' = 1
    /\ last' = "row"
    /\ pc' = "cols"
    /\ UNCHANGED <<headers, explicit, keep_empty, row_tag, path, written>>

AfterColumn ==
    /\ col' = col + 1
    /\ pc' = IF col = Len(headers) THEN "rows" ELSE "cols"

\* a column whose value is skipped: one of the three "continue"
SkipColumn ==
    /\ pc = "cols"
    /\ ~keep_empty /\ SkipsValue(row[col])
    /\ AfterColumn
    /\ last' = "skip"
    /\ UNCHANGED <<headers, explicit, keep_empty, row_tag, df, row, nodes,
                   row_elem, path, written>>

\* a column whose value is written: path_for_row, then set_nested_value
GraftColumn ==
    /\ pc = "cols"
    /\ ~(~keep_empty /\ SkipsValue(row[col]))
    /\ path' = path_for_row(headers[col], row_tag)
    /\ nodes' = ColumnStep(nodes, row_elem, headers, row_tag, keep_empty, row, col)
    /\ AfterColumn
    /\ last' = "graft"
    /\ UNCHANGED <<headers, explicit, keep_empty, row_tag, df, row, row_elem,
                   written>>

\* df.iterrows() is exhausted
EndRows ==
    /\ pc = "rows"
    /\ last' = "end"
    /\ pc' = "indent"
    /\ UNCHANGED <<headers, explicit, keep_empty, row_tag, df, row, col, nodes,
                   row_elem, path, written>>

\* indent(root)
Indent ==
    /\ pc = "indent"
    /\ nodes' = indent(nodes, Root, 0)
    /\ last' = "indent"
    /\ pc' = "write"
    /\ UNCHANGED <<headers, explicit, keep_empty, row_tag, df, row, col,
                   row_elem, path, written>>

\* tree.write(...)
Write ==
    /\ pc = "write"
    /\ written' = Append(written, nodes)
    /\ last' = "write"
    /\ pc' = "done"
    /\ UNCHANGED <<headers, explicit, keep_empty, row_tag, df, row, col, nodes,
                   row_elem, path>>

Next ==
    \/ Start
    \/ NextRow
    \/ SkipColumn
    \/ GraftColumn
    \/ EndRows
    \/ Indent
    \/ Write

Spec == Init /\ [][Next]_vars

-----------------------------------------------------------------------------
(* determine_row_tag and path_for_row on their own, over all the strings of *)
(* "p" and "." up to a length, the malformed ones included                   *)

FnChars == {"p", Dot}

FnStrings == UNION {[1..k -> FnChars] : k \in 1..FnMaxLen}

FnHeaderLists == {hs \in ListsOver(FnStrings, FnMaxCols) : Distinct(hs)}

FnExplicitTags == {None, Str(EmptyStr), Str(<<"p">>), Str(<<"p", "p">>)}

InitFn ==
    /\ headers \in FnHeaderLists
    /\ explicit \in FnExplicitTags
    /\ keep_empty = FALSE
    /\ row_tag = EmptyStr
    /\ df = << >>
    /\ row = << >>
    /\ col = 0
    /\ nodes = << >>
    /\ row_elem = 0
    /\ path = << >>
    /\ written = << >>
    /\ last = "init"
    /\ pc = "fn"

\* row_tag = determine_row_tag(headers, args.row_tag)
CallRowTag ==
    /\ pc = "fn"
    /\ row_tag' = determine_row_tag(headers, explicit)
    /\ last' = "row_tag"
    /\ pc' = "fn_tag"
    /\ UNCHANGED <<headers, explicit, keep_empty, df, row, col, nodes,
                   row_elem, path, written>>

\* path_segments = path_for_row(col), for one of the columns
CallPath ==
    /\ pc = "fn_tag"
    /\ \E c \in 1..Len(headers) :
          /\ col' = c
          /\ path' = path_for_row(headers[c], row_tag)
    /\ last' = "path"
    /\ pc' = "fn_path"
    /\ UNCHANGED <<headers, explicit, keep_empty, row_tag, df, row, nodes,
                   row_elem, written>>

NextFn ==
    \/ CallRowTag
    \/ CallPath

SpecFn == InitFn /\ [][NextFn]_vars

-----------------------------------------------------------------------------
(* What the claims say, in terms of the strings themselves *)

\* the characters of s before its first "." (all of s when it has none)
BeforeFirstDot(s) ==
    LET k == Max({j \in 0..Len(s) : \A i \in 1..j : s[i] # Dot})
    IN  SubSeq(s, 1, k)

DotCount(s) == Cardinality({i \in 1..Len(s) : s[i] = Dot})

\* ".".join(segs)
RECURSIVE Join(_)
Join(segs) ==
    IF Len(segs) = 0 THEN EmptyStr
    ELSE IF Len(segs) = 1 THEN segs[1]
    ELSE segs[1] \o <<Dot>> \o Join(Tail(segs))

\* the first segments of the headers that hold a "."
DottedFirsts(hs) ==
    {BeforeFirstDot(hs[i]) : i \in {j \in 1..Len(hs) : DotCount(hs[j]) > 0}}

C2_Path ==
    pc = "fn_path" =>
        LET h       == headers[col]
            dropped == DotCount(h) > 0 /\ BeforeFirstDot(h) = row_tag
        IN  /\ Len(path) >= 1
            /\ \A i \in 1..Len(path) : DotCount(path[i]) = 0
            /\ Len(path) = IF dropped THEN DotCount(h) ELSE DotCount(h) + 1
            /\ Join(path) = IF dropped THEN SubSeq(h, Len(row_tag) + 2, Len(h)) ELSE h
            /\ DotCount(h) = 0 => path = <<h>>

\* C2's case: the leading segment of a dotted header equals the row tag and is
\* dropped
C2_Witness ==
    /\ pc = "fn_path"
    /\ DotCount(headers[col]) > 0
    /\ BeforeFirstDot(headers[col]) = row_tag
    /\ Len(path) = DotCount(headers[col])
    /\ \E c \in 1..Len(headers) : headers[c] = row_tag

-----------------------------------------------------------------------------
(* Reading the tree *)

\* the element reached from node along the segments p, 0 when there is none
RECURSIVE Walk(_, _, _)
Walk(h, node, p) ==
    IF Len(p) = 0 THEN node
    ELSE LET kids == h[node].kids
             hit  == {j \in 1..Len(kids) : h[kids[j]].tag = p[1]}
         IN  IF hit = {} THEN 0 ELSE Walk(h, kids[Min(hit)], Tail(p))

\* the elements of the subtree of node
RECURSIVE Subtree(_, _)
Subtree(h, node) ==
    {node} \cup UNION {Subtree(h, h[node].kids[j]) : j \in 1..Len(h[node].kids)}

\* the subtree of node as a value: tag, text, tail and children in order
RECURSIVE Canon(_, _)
Canon(h, node) ==
    [tag  |-> h[node].tag,
     text |-> h[node].text,
     tail |-> h[node].tail,
     kids |-> [j \in 1..Len(h[node].kids) |-> Canon(h, h[node].kids[j])]]

IsPrefix(a, b) == Len(a) <= Len(b) /\ \A i \in 1..Len(a) : a[i] = b[i]

\* the path of column c
PathOf(c) == path_for_row(headers[c], row_tag)

\* empty as the spec defines it: null, or nothing left once trimmed
IsEmptyValue(v) ==
    \/ v = None
    \/ v = NaN
    \/ v.kind = "str" /\ \A i \in 1..Len(v.s) : v.s[i] \in Whitespace

\* column c of row r is written
IsWritten(r, c) == keep_empty \/ ~IsEmptyValue(r[c])

\* the row loop applied to row r alone, on a document of its own
RECURSIVE BuildFrom(_, _, _)
BuildFrom(h, r, c) ==
    IF c > Len(headers) THEN h
    ELSE BuildFrom(ColumnStep(h, 1, headers, row_tag, keep_empty, r, c), r, c + 1)

RowAlone(r) == Canon(BuildFrom(<<Element(row_tag)>>, r, 1), 1)

\* the row loop is between two rows, row and row_elem being the row just built
RowBuilt == pc = "rows" /\ Len(df) > 0

HasText(n) == n.text # None /\ n.text.s # EmptyStr

-----------------------------------------------------------------------------
(* The claims about the tree *)

\* C3: whatever has been grafted, no element of a row's tree (the row element
\* or a descendant) has two children with the same tag.
C3_UniqueChildTags ==
    \A e \in 2..Len(nodes) :
        \A i, j \in 1..Len(nodes[e].kids) :
            nodes[nodes[e].kids[i]].tag = nodes[nodes[e].kids[j]].tag => i = j

\* C3's case: two columns of one row with the same path and different
\* values have both been grafted
C3_Witness ==
    /\ RowBuilt
    /\ keep_empty
    /\ Len(headers) = 2
    /\ PathOf(1) = PathOf(2)
    /\ row[1] # row[2]
    /\ Len(nodes[row_elem].kids) = 1

\* C4: in the rows the loop builds, an element holds text only as the end of
\* the path of one of the columns, and an element that has children holds no
\* text, whatever the headers are.
C4_ContainersHoldNoText ==
    pc \in {"rows", "cols"} =>
        \A e \in 2..Len(nodes) :
            /\ Len(nodes[e].kids) > 0 => ~HasText(nodes[e])
            /\ HasText(nodes[e]) =>
                  \E k \in 1..Len(nodes[Root].kids), c \in 1..Len(headers) :
                      Walk(nodes, nodes[Root].kids[k], PathOf(c)) = e

\* C5 as stated: after a row is built, the element two headers both resolve
\* to holds the value of the later header, whatever keep_empty and the values.
C5_LaterHeaderWins ==
    RowBuilt =>
        \A i, j \in 1..Len(headers) :
            (i < j /\ PathOf(i) = PathOf(j)
                   /\ \A k \in 1..Len(headers) : PathOf(k) = PathOf(j) => k <= j) =>
                LET leaf == Walk(nodes, row_elem, PathOf(j))
                IN  leaf # 0 => nodes[leaf].text = Str(TextOf(row[j]))

\* C5 amended: after a row is built, the element two headers both resolve to
\* holds the text of the last header, among those with that path, whose value
\* was written (keep_empty on, or a value that is not empty); when none was
\* written the element is absent or has no text.
C5_LastWrittenWins ==
    RowBuilt =>
        \A i, j \in 1..Len(headers) :
            (i < j /\ PathOf(i) = PathOf(j)) =>
                LET W    == {k \in 1..Len(headers) :
                                PathOf(k) = PathOf(j) /\ IsWritten(row, k)}
                    leaf == Walk(nodes, row_elem, PathOf(j))
                IN  IF W # {}
                    THEN leaf # 0 /\ nodes[leaf].text = Str(TextOf(row[Max(W)]))
                    ELSE leaf = 0 \/ nodes[leaf].text = None

\* C5's case: keep_empty off, the earlier header written and the later one,
\* blank, skipped
C5_Witness ==
    /\ RowBuilt
    /\ ~keep_empty
    /\ Len(headers) = 2
    /\ PathOf(1) = PathOf(2)
    /\ row[1] = Str(<<"v">>)
    /\ row[2] = Str(<<" ">>)
    /\ nodes[Walk(nodes, row_elem, PathOf(2))].text = Str(<<"v">>)

\* C6: with keep_empty off, while and after a row is built, a top-level
\* segment all of whose columns processed so far are empty (null, or blank
\* once trimmed) has no child element in the row element.
C6_EmptyPathsAbsent ==
    (pc \in {"rows", "cols"} /\ Len(df) > 0 /\ ~keep_empty) =>
        \A c \in 1..Len(headers) :
            LET seg   == PathOf(c)[1]
                under == {k \in 1..(col - 1) : PathOf(k)[1] = seg}
            IN  (\A k \in under : IsEmptyValue(row[k])) =>
                    Walk(nodes, row_elem, <<seg>>) = 0

\* C6's case: a blank column is skipped while the other column of the row,
\* under another segment, is written
C6_Witness ==
    /\ RowBuilt
    /\ ~keep_empty
    /\ Len(headers) = 2
    /\ PathOf(1)[1] # PathOf(2)[1]
    /\ row[1] = Str(<<" ">>)
    /\ row[2] = Str(<<"v">>)
    /\ Len(nodes[row_elem].kids) = 1

\* C7: between two rows, and when the rows are exhausted, root has as many
\* children as rows were read, the i-th child is what the loop builds from the
\* i-th row, and all carry the row tag.
C7_OneChildPerRow ==
    pc \in {"rows", "indent"} =>
        /\ Len(nodes[Root].kids) = Len(df)
        /\ \A i \in 1..Len(df) :
              /\ nodes[nodes[Root].kids[i]].tag = row_tag
              /\ Canon(nodes, nodes[Root].kids[i]) = RowAlone(df[i])

\* C7's case: two rows read, the first with children and the second, all of
\* it skipped, without
C7_Witness ==
    /\ pc = "rows"
    /\ Len(df) = 2
    /\ ~keep_empty
    /\ Len(nodes[nodes[Root].kids[1]].kids) > 0
    /\ Len(nodes[nodes[Root].kids[2]].kids) = 0

\* C8: once the rows are exhausted no element changes before the tree is
\* written, and the tree is written once.
C8_NoChangeAfterRows ==
    [][/\ pc \in {"indent", "write"} =>
             /\ Len(nodes') = Len(nodes)
             /\ \A e \in 1..Len(nodes) :
                   /\ nodes'[e].tag = nodes[e].tag
                   /\ nodes'[e].text = nodes[e].text
                   /\ nodes'[e].kids = nodes[e].kids
       /\ Len(written') <= 1]_vars

\* C9: a call of set_nested_value removes no element and reorders no
\* children: the children of every element before the call are a prefix of
\* its children after it, an element gains at most one child and the tree at
\* most one element for each segment, and no text changes other than that of
\* the element the path ends at.
C9_GraftFrame ==
    [][(pc = "cols" /\ last' = "graft") =>
          LET leaf == Walk(nodes', row_elem, path')
          IN  /\ Len(nodes') >= Len(nodes)
              /\ Len(nodes') - Len(nodes) <= Len(path')
              /\ leaf # 0
              /\ \A e \in 1..Len(nodes) :
                    /\ nodes'[e].tag = nodes[e].tag
                    /\ nodes'[e].tail = nodes[e].tail
                    /\ IsPrefix(nodes[e].kids, nodes'[e].kids)
                    /\ Len(nodes'[e].kids) <= Len(nodes[e].kids) + 1
                    /\ e # leaf => nodes'[e].text = nodes[e].text
              /\ \A e \in (Len(nodes) + 1)..Len(nodes') :
                    e # leaf => nodes'[e].text = None]_vars

\* C9's case: a graft has added a child to an element of a row that already
\* had one
C9_Witness ==
    /\ last = "graft"
    /\ \E e \in 2..Len(nodes) : Len(nodes[e].kids) >= 2

\* C10: reading and building a row changes nothing in the subtrees of the
\* rows built before it, and the tree of a row is what the loop builds from
\* that row alone.
C10_RowsIsolated ==
    [][(pc \in {"rows", "cols"} /\ pc' \in {"rows", "cols"}) =>
          /\ \A k \in 1..Len(nodes[Root].kids) :
                k < Len(df') =>
                   /\ nodes'[Root].kids[k] = nodes[Root].kids[k]
                   /\ \A d \in Subtree(nodes, nodes[Root].kids[k]) :
                         nodes'[d] = nodes[d]
          /\ pc' = "rows" => Canon(nodes', row_elem') = RowAlone(row')]_vars

\* C10's case: the second row has grafted the path the first row grafted
C10_Witness ==
    /\ Len(df) = 2
    /\ last = "graft"
    /\ Len(nodes[nodes[Root].kids[1]].kids) > 0
    /\ Len(nodes[nodes[Root].kids[2]].kids) > 0
    /\ df[1] # df[2]

====
